---- MODULE Spec2Model ----
(***************************************************************************)
(* Model of server/src/metrics.rs: the MetricsWindow ring of 60 one-second *)
(* buckets, the record_update_metrics reducer that fills it, and the       *)
(* update_server_metrics reducer that sums the live buckets, stores a      *)
(* ServerMetrics row and prunes rows older than 60 seconds.                *)
(*                                                                         *)
(* Timestamps are microseconds, as in the source.  f32 quantities that the *)
(* source only adds are kept as whole numbers (the latencies the model     *)
(* offers are whole milliseconds, and every sum stays far below 2^24,      *)
(* where f32 addition is exact); f32 quotients are kept as reduced         *)
(* fractions, with NaN for a division by zero.                             *)
(*                                                                         *)
(* Spec runs each reducer as one step.  SpecTx runs them statement by      *)
(* statement, for the claims about producers and the tick running          *)
(* concurrently.                                                           *)
(***************************************************************************)
EXTENDS Integers, Sequences, FiniteSets, TLC

VARIABLES
    metrics_window,   \* table MetricsWindow: window_id -> row
    server_metrics,   \* table ServerMetrics: set of rows, key timestamp
    overflow_checks,  \* TRUE: arithmetic overflow panics; FALSE: it wraps
    now,              \* ctx.timestamp of the latest reducer call
    op,               \* the latest reducer call that ended: name and outcome
    inserted,         \* the row the latest update_server_metrics inserted
    pruned,           \* the rows the latest update_server_metrics deleted
    log,              \* history: the calls of record_update_metrics, in order
    held,             \* history: the calls (indices of log) summed in their row
    hist,             \* history: the rows init and record meant to write
    calls,            \* number of reducer calls made
    rpc,              \* producer -> position in record_update_metrics
    rlocal,           \* producer -> locals of record_update_metrics
    tpc,              \* position of update_server_metrics
    tlocal            \* locals of update_server_metrics

vars == <<metrics_window, server_metrics, overflow_checks, now, op, inserted,
          pruned, log, held, hist, calls, rpc, rlocal, tpc, tlocal>>

history == <<log, held, hist>>

stepping == <<rpc, rlocal, tpc, tlocal>>

(***************************************************************************)
(* Program constants.                                                      *)
(***************************************************************************)
METRICS_WINDOW_COUNT == 60

MICROS_PER_SEC == 1000000

RETENTION_MICROS == 60000000

KB_PER_MB == 1024

\* micros() is a u64.  TLC's integers are 32 bits wide, so the modulus of
\* the wrap-around is scaled down; it stays above every timestamp reached.
U64_MODULUS == 2^30

WindowIds == 0 .. (METRICS_WINDOW_COUNT - 1)

(***************************************************************************)
(* Bounds of the model.                                                    *)
(***************************************************************************)
MaxCalls == 3          \* reducer calls in a run

\* The timestamps (ctx.timestamp) of the calls: slot 0 of the ring in three
\* successive cycles, at the start and in the middle of the second, and its
\* neighbour slot 1 in two cycles.
WholeSeconds == {0, 1, 60, 61, 120}

HalfSeconds == {0, 60, 120}

Times == {s * MICROS_PER_SEC : s \in WholeSeconds}
             \cup {s * MICROS_PER_SEC + 500000 : s \in HalfSeconds}

\* update_time_ms of a call, whole milliseconds.
Latencies == {1, 2}

\* What the player table and sysinfo report at a tick.  The count and the
\* memory are unsigned; cpu_usage() is an f32 that the reducer takes as it
\* comes, so one reading has it below zero.
Readings == {[players |-> 0, used_kb |-> 0, cpu |-> -1],
             [players |-> 1, used_kb |-> 2048, cpu |-> 50]}

\* The inputs of the runs that step through the reducers.
TxTimes == {0, 500000, 60000000}

TxLatencies == {1, 2}

Producers == {1, 2}

(***************************************************************************)
(* Arithmetic.                                                             *)
(***************************************************************************)
\* a - b on u64: the difference wraps when b > a.
WrappingSub(a, b) == (a - b + U64_MODULUS) % U64_MODULUS

\* a - b overflows (panics with overflow checks on).
SubOverflows(a, b) == b > a

RECURSIVE Gcd(_, _)
Gcd(a, b) == IF b = 0 THEN a ELSE Gcd(b, a % b)

NaN == [num |-> 0, den |-> 0]

F32Zero == [num |-> 0, den |-> 1]

\* a as f32 / b as f32, for a, b >= 0.
F32Div(a, b) ==
    IF b = 0 THEN NaN
    ELSE LET g == Gcd(a, b) IN [num |-> a \div g, den |-> b \div g]

(***************************************************************************)
(* record_update_metrics: the bucket of a timestamp and its rollover.      *)
(***************************************************************************)
\* A window id taken from the milliseconds of the timestamp.
CurrentWindowMillis(t) == (t \div 1000) % METRICS_WINDOW_COUNT

\* The window_id a call at timestamp t addresses.
CurrentWindow(t) == (t \div MICROS_PER_SEC) % METRICS_WINDOW_COUNT

\* The reset test with the boundary left out.
IsExpiredStrict(t, start) ==
    WrappingSub(t, start) > METRICS_WINDOW_COUNT * MICROS_PER_SEC

\* "If window is from previous cycle": the test that resets a window.
IsExpired(t, start) ==
    WrappingSub(t, start) >= METRICS_WINDOW_COUNT * MICROS_PER_SEC

\* The window as record_update_metrics leaves it: reset or accumulated.
RecordRow(window, t, v) ==
    IF IsExpired(t, window.start_time)
    THEN [window EXCEPT !.start_time = t,
                        !.update_count = 1,
                        !.total_update_time_ms = v]
    ELSE [window EXCEPT !.update_count = @ + 1,
                        !.total_update_time_ms = @ + v]

\* A write that stores the new update_count and leaves the row's other
\* columns as they were.
UpdateCountOnly(tbl, window) ==
    [tbl EXCEPT ![window.window_id].update_count = window.update_count]

\* update_by_window_id: the row with the window's id is replaced by it.
UpdateByWindowId(tbl, window) == [tbl EXCEPT ![window.window_id] = window]

\* The rows init_metrics inserts.
InitialWindows(t) ==
    [i \in WindowIds |-> [window_id |-> i,
                          start_time |-> t,
                          update_count |-> 0,
                          total_update_time_ms |-> 0]]

(***************************************************************************)
(* update_server_metrics: the live totals, the row, the pruning.           *)
(***************************************************************************)
\* The inclusion test with the boundary let in.
IsLiveInclusive(t, start) ==
    WrappingSub(t, start) <= METRICS_WINDOW_COUNT * MICROS_PER_SEC

\* A test of liveness that compares whole seconds.
IsLiveWholeSeconds(t, start) ==
    (t \div MICROS_PER_SEC) - (start \div MICROS_PER_SEC)
        < METRICS_WINDOW_COUNT

\* The test that includes a window in the totals.
IsLive(t, start) ==
    WrappingSub(t, start) < METRICS_WINDOW_COUNT * MICROS_PER_SEC

\* One turn of the loop over the windows.
AddWindow(acc, window, t) ==
    IF IsLive(t, window.start_time)
    THEN [total_updates |-> acc.total_updates + window.update_count,
          total_time |-> acc.total_time + window.total_update_time_ms]
    ELSE acc

NoTotals == [total_updates |-> 0, total_time |-> 0]

\* The totals the loop adds up over the rows with window_id in lo .. hi
\* (the sums are of whole numbers, so the ranges may be summed apart).
RECURSIVE SumWindows(_, _, _, _)
SumWindows(tbl, lo, hi, t) ==
    IF lo > hi THEN NoTotals
    ELSE IF lo = hi
    THEN IF lo \in DOMAIN tbl
         THEN AddWindow(NoTotals, tbl[lo], t) ELSE NoTotals
    ELSE LET mid == (lo + hi) \div 2
             left == SumWindows(tbl, lo, mid, t)
             right == SumWindows(tbl, mid + 1, hi, t)
         IN [total_updates |-> left.total_updates + right.total_updates,
             total_time |-> left.total_time + right.total_time]

\* The loop over the whole table.
LiveTotals(tbl, t) ==
    SumWindows(tbl, 0, METRICS_WINDOW_COUNT - 1, t)

\* A subtraction of the loop overflows.
ScanOverflows(tbl, t) ==
    \E i \in DOMAIN tbl : SubOverflows(t, tbl[i].start_time)

UpdatesPerSecond(totals) ==
    F32Div(totals.total_updates, METRICS_WINDOW_COUNT)

\* The average with the guard against no updates left out.
AverageUnguarded(totals) ==
    F32Div(totals.total_time, totals.total_updates)

AverageUpdateTime(totals) ==
    IF totals.total_updates > 0
    THEN F32Div(totals.total_time, totals.total_updates)
    ELSE F32Zero

\* The row update_server_metrics composes.
ComposeRow(totals, t, reading) ==
    [timestamp |-> t,
     connected_clients |-> reading.players,
     updates_per_second |-> UpdatesPerSecond(totals),
     average_update_time_ms |-> AverageUpdateTime(totals),
     memory_usage_mb |-> F32Div(reading.used_kb, KB_PER_MB),
     cpu_usage_percent |-> reading.cpu]

\* The cutoff of the clean-up, a u64 subtraction.
CutoffTime(t) == WrappingSub(t, RETENTION_MICROS)

\* The clean-up with the row at the cutoff deleted too.
ExpiredInclusive(rows, cutoff) == {m \in rows : m.timestamp <= cutoff}

\* The rows the clean-up deletes.
Expired(rows, cutoff) == {m \in rows : m.timestamp < cutoff}

\* An insert that never meets a taken key.
KeyNeverTaken(rows, t) == FALSE

\* insert on a table whose primary key is already taken fails.
KeyTaken(rows, t) == \E m \in rows : m.timestamp = t

(***************************************************************************)
(* State.                                                                  *)
(***************************************************************************)
NoRow == [window_id |-> -1]

NoLocal == [t |-> 0, v |-> 0, window |-> NoRow]

NoTick == [t |-> 0, reading |-> [players |-> 0, used_kb |-> 0, cpu |-> 0],
           next |-> 0, totals |-> NoTotals, window |-> NoRow,
           overflowed |-> FALSE]

Init ==
    /\ metrics_window = <<>>
    /\ server_metrics = {}
    /\ overflow_checks \in BOOLEAN
    /\ now = 0
    /\ op = [name |-> "none", outcome |-> "ok"]
    /\ inserted = NoRow
    /\ pruned = {}
    /\ log = <<>>
    /\ held = {}
    /\ hist = {}
    /\ calls = 0
    /\ rpc = [p \in Producers |-> "idle"]
    /\ rlocal = [p \in Producers |-> NoLocal]
    /\ tpc = "idle"
    /\ tlocal = NoTick

Ended(reducer, outcome) == op' = [name |-> reducer, outcome |-> outcome]

\* A reducer is called at timestamp t: the clock does not run backwards.
Invoke(t) ==
    /\ calls < MaxCalls
    /\ t >= now
    /\ calls' = calls + 1
    /\ now' = t

\* The calls of log summed in the row of window idx.
HeldIn(idx) == {n \in held : CurrentWindow(log[n].t) = idx}

(***************************************************************************)
(* The effects of the reducers.                                            *)
(***************************************************************************)
\* init_metrics at t: the first insert fails when the rows are there.
InitEffect(t) ==
    IF DOMAIN metrics_window # {}
    THEN /\ Ended("init_metrics", "duplicate_key")
         /\ UNCHANGED <<metrics_window, history>>
    ELSE /\ Ended("init_metrics", "ok")
         /\ metrics_window' = InitialWindows(t)
         /\ held' = {}
         /\ hist' = {InitialWindows(t)[i] : i \in WindowIds}
         /\ UNCHANGED log

\* filter_by_window_id: the row with that id, if there is one.
FilterByWindowId(tbl, id) == IF id \in DOMAIN tbl THEN tbl[id] ELSE NoRow

\* A reducer that unwraps the row it looked up and panics on None.
NoWindowUnwrap(call) ==
    /\ Ended("record_update_metrics", "panic")
    /\ UNCHANGED <<metrics_window, history>>

\* The `if let Some` of record_update_metrics met no row: the body is
\* skipped and the reducer returns.
NoWindow(call) ==
    /\ Ended("record_update_metrics", "ok")
    /\ log' = Append(log, call)
    /\ UNCHANGED <<metrics_window, held, hist>>

\* record_update_metrics by producer p at t with v, from the window it
\* read (NoRow: there is none) to the end of the reducer.
RecordEffect(p, t, v, window) ==
    LET idx == CurrentWindow(t)
        n == Len(log) + 1
        call == [t |-> t, v |-> v, by |-> p, found |-> window # NoRow]
    IN IF window = NoRow
       THEN NoWindow(call)
       ELSE IF overflow_checks /\ SubOverflows(t, window.start_time)
       THEN /\ Ended("record_update_metrics", "panic")
            /\ UNCHANGED <<metrics_window, history>>
       ELSE /\ Ended("record_update_metrics", "ok")
            /\ metrics_window' =
                   UpdateByWindowId(metrics_window, RecordRow(window, t, v))
            /\ log' = Append(log, call)
            /\ held' = IF IsExpired(t, window.start_time)
                       THEN (held \ HeldIn(idx)) \cup {n}
                       ELSE held \cup {n}
            /\ hist' = hist \cup {RecordRow(window, t, v)}

\* update_server_metrics at t once its loop has summed totals: the insert,
\* then the clean-up; a panic or a failed insert ends the transaction with
\* nothing written.
TickEffect(t, reading, totals, overflowed) ==
    LET row == ComposeRow(totals, t, reading)
        rows == server_metrics \cup {row}
    IN IF overflow_checks /\ overflowed
       THEN /\ Ended("update_server_metrics", "panic")
            /\ UNCHANGED <<server_metrics, inserted, pruned>>
       ELSE IF KeyTaken(server_metrics, t)
       THEN /\ Ended("update_server_metrics", "duplicate_key")
            /\ UNCHANGED <<server_metrics, inserted, pruned>>
       ELSE IF overflow_checks /\ SubOverflows(t, RETENTION_MICROS)
       THEN /\ Ended("update_server_metrics", "panic")
            /\ UNCHANGED <<server_metrics, inserted, pruned>>
       ELSE /\ Ended("update_server_metrics", "ok")
            /\ inserted' = row
            /\ pruned' = Expired(rows, CutoffTime(t))
            /\ server_metrics' = rows \ Expired(rows, CutoffTime(t))

(***************************************************************************)
(* The reducers, each run as one transaction.                              *)
(***************************************************************************)
init_metrics(t) ==
    /\ Invoke(t)
    /\ InitEffect(t)
    /\ UNCHANGED <<server_metrics, overflow_checks, inserted, pruned, stepping>>

record_update_metrics(t, v) ==
    /\ Invoke(t)
    /\ RecordEffect(0, t, v,
                    FilterByWindowId(metrics_window, CurrentWindow(t)))
    /\ UNCHANGED <<server_metrics, overflow_checks, inserted, pruned, stepping>>

update_server_metrics(t, reading) ==
    /\ Invoke(t)
    /\ TickEffect(t, reading, LiveTotals(metrics_window, t),
                  ScanOverflows(metrics_window, t))
    /\ UNCHANGED <<metrics_window, overflow_checks, history, stepping>>

Next ==
    \/ \E t \in Times : init_metrics(t)
    \/ \E t \in Times, v \in Latencies : record_update_metrics(t, v)
    \/ \E t \in Times, reading \in Readings : update_server_metrics(t, reading)

Spec == Init /\ [][Next]_vars

(***************************************************************************)
(* The reducers statement by statement.  A reducer runs as a transaction:  *)
(* the host starts one only when no other is running.                      *)
(***************************************************************************)
\* The host starts reducers with no regard to the ones running.
TxFreeRacing == TRUE

\* No reducer is running.
TxFree == tpc = "idle" /\ \A p \in Producers : rpc[p] = "idle"

InitRun(t) ==
    /\ TxFree
    /\ init_metrics(t)

\* Producer p calls record_update_metrics: the slot, and the row read.
RecordFind(p, t, v) ==
    /\ TxFree
    /\ rpc[p] = "idle"
    /\ Invoke(t)
    /\ rpc' = [rpc EXCEPT ![p] = "found"]
    /\ rlocal' = [rlocal EXCEPT ![p] =
           [t |-> t, v |-> v,
            window |-> FilterByWindowId(metrics_window, CurrentWindow(t))]]
    /\ UNCHANGED <<metrics_window, server_metrics, overflow_checks, op,
                   inserted, pruned, history, tpc, tlocal>>

\* The window is reset or accumulated and written back; the reducer ends.
RecordUpdate(p) ==
    /\ rpc[p] = "found"
    /\ RecordEffect(p, rlocal[p].t, rlocal[p].v, rlocal[p].window)
    /\ rpc' = [rpc EXCEPT ![p] = "idle"]
    /\ rlocal' = [rlocal EXCEPT ![p] = NoLocal]
    /\ UNCHANGED <<server_metrics, overflow_checks, now, inserted, pruned,
                   calls, tpc, tlocal>>

\* update_server_metrics is called: the totals start at zero.
TickStart(t, reading) ==
    /\ TxFree
    /\ Invoke(t)
    /\ tpc' = "scan"
    /\ tlocal' = [NoTick EXCEPT !.t = t, !.reading = reading]
    /\ UNCHANGED <<metrics_window, server_metrics, overflow_checks, op,
                   inserted, pruned, history, rpc, rlocal>>

\* One turn of the loop: the iterator yields the next row.
TickScan ==
    /\ tpc = "scan"
    /\ tlocal.next \in DOMAIN metrics_window
    /\ LET window == metrics_window[tlocal.next]
       IN tlocal' = [tlocal EXCEPT
              !.next = @ + 1,
              !.window = window,
              !.totals = AddWindow(@, window, tlocal.t),
              !.overflowed = @ \/ SubOverflows(tlocal.t, window.start_time)]
    /\ UNCHANGED <<metrics_window, server_metrics, overflow_checks, now, op,
                   inserted, pruned, history, calls, rpc, rlocal, tpc>>

\* The loop is over: the row is composed and inserted, old rows deleted.
TickFinish ==
    /\ tpc = "scan"
    /\ tlocal.next \notin DOMAIN metrics_window
    /\ TickEffect(tlocal.t, tlocal.reading, tlocal.totals, tlocal.overflowed)
    /\ tpc' = "idle"
    /\ tlocal' = NoTick
    /\ UNCHANGED <<metrics_window, overflow_checks, now, history, calls,
                   rpc, rlocal>>

NextTx ==
    \/ \E t \in TxTimes : InitRun(t)
    \/ \E p \in Producers, t \in TxTimes, v \in TxLatencies : RecordFind(p, t, v)
    \/ \E p \in Producers : RecordUpdate(p)
    \/ \E t \in TxTimes, reading \in Readings : TickStart(t, reading)
    \/ TickScan
    \/ TickFinish

SpecTx == Init /\ [][NextTx]_vars

(***************************************************************************)
(* What the claims speak of.                                               *)
(***************************************************************************)
SecondOf(t) == t \div MICROS_PER_SEC

WindowMicros == METRICS_WINDOW_COUNT * MICROS_PER_SEC

\* The latest reducer to end was update_server_metrics, and it stored a row.
TickDone == op = [name |-> "update_server_metrics", outcome |-> "ok"]

Initialized == DOMAIN metrics_window # {}

\* The windows whose age at t is below 60 seconds.
LiveIds(t) ==
    {i \in DOMAIN metrics_window :
         t - metrics_window[i].start_time < WindowMicros}

\* The sum of update_count over the windows ids.
CountOver(ids) ==
    Cardinality(UNION {{i} \X (1 .. metrics_window[i].update_count) :
                           i \in ids})

\* The sum of total_update_time_ms over the windows ids.
TimeOver(ids) ==
    Cardinality(UNION {{i} \X (1 .. metrics_window[i].total_update_time_ms) :
                           i \in ids})

\* The sum of the latencies of the calls S of the log.
LoggedLatency(S) == Cardinality(UNION {{n} \X (1 .. log[n].v) : n \in S})

IsZero(f) == f.num = 0 /\ f.den > 0

\* The calls that met a window and are younger than 60 seconds at now.
InWindow == {n \in 1 .. Len(log) : log[n].found /\ now - log[n].t < WindowMicros}

\* A step in which record_update_metrics met a window.
C1_RecordStep ==
    /\ Len(log') = Len(log) + 1
    /\ log'[Len(log')].found

(***************************************************************************)
(* C1: rollover.  When record_update_metrics meets a window that holds     *)
(* samples of second T, a call in second T + 60 or later resets it (start  *)
(* = now, count = 1, total = the sample) and an earlier call accumulates,  *)
(* whatever the sub-second offsets.                                        *)
(***************************************************************************)
C1_Rollover ==
    [][C1_RecordStep =>
          LET idx == CurrentWindow(now')
              before == metrics_window[idx]
              after == metrics_window'[idx]
              v == log'[Len(log')].v
          IN \A n \in HeldIn(idx) :
                 IF SecondOf(now') >= SecondOf(log[n].t) + METRICS_WINDOW_COUNT
                 THEN after = [before EXCEPT !.start_time = now',
                                             !.update_count = 1,
                                             !.total_update_time_ms = v]
                 ELSE after = [before EXCEPT
                                   !.update_count = @ + 1,
                                   !.total_update_time_ms = @ + v]]_vars

(***************************************************************************)
(* C2: the totals of a tick cover the last 60 seconds.  After a tick at    *)
(* now, every sample recorded since init_metrics at a time t with          *)
(* now - 60 s < t <= now is summed in a window the tick counts as live.    *)
(***************************************************************************)
C2_LastSixtySeconds ==
    (TickDone /\ Initialized) =>
        \A n \in InWindow :
            /\ n \in held
            /\ CurrentWindow(log[n].t) \in LiveIds(now)

(***************************************************************************)
(* C3: when all the calls of record_update_metrics since init_metrics lie  *)
(* within one window period (60 seconds) that reaches to now, the live     *)
(* totals at now are the number of the calls and the sum of their          *)
(* latencies.                                                              *)
(***************************************************************************)
C3_ExactTotals ==
    (/\ Initialized
     /\ op.outcome = "ok"
     /\ op.name \in {"record_update_metrics", "update_server_metrics"}
     /\ Len(log) > 0
     /\ InWindow = 1 .. Len(log)) =>
        LiveTotals(metrics_window, now) =
            [total_updates |-> Len(log),
             total_time |-> LoggedLatency(1 .. Len(log))]

\* A step in which update_server_metrics runs.
C4_TickStep ==
    /\ op'.name = "update_server_metrics"
    /\ calls' = calls + 1

(***************************************************************************)
(* C4: retention.  A call of update_server_metrics at now leaves no row    *)
(* with timestamp < now - 60 s, and every row stored before the call with  *)
(* timestamp >= now - 60 s is still stored after it.                       *)
(***************************************************************************)
C4_Retention ==
    [][C4_TickStep =>
          /\ \A m \in server_metrics' :
                 m.timestamp >= now' - RETENTION_MICROS
          /\ \A m \in server_metrics :
                 m.timestamp >= now' - RETENTION_MICROS
                     => m \in server_metrics']_vars

\* A tick deleted a row and kept the row that is exactly 60 seconds old.
C4_Witness ==
    /\ TickDone
    /\ pruned # {}
    /\ \E m \in server_metrics : m.timestamp = now - RETENTION_MICROS

(***************************************************************************)
(* C5: the row a tick stores has updates_per_second = totalUpdates / 60    *)
(* and average_update_time_ms = totalTime / totalUpdates when totalUpdates *)
(* > 0, and exactly 0 (no division by zero) when totalUpdates = 0, for the *)
(* totals of the windows younger than 60 seconds at now.                   *)
(***************************************************************************)
C5_SnapshotRates ==
    TickDone =>
        LET n == CountOver(LiveIds(now))
            sum == TimeOver(LiveIds(now))
            ups == inserted.updates_per_second
            avg == inserted.average_update_time_ms
        IN /\ ups.den > 0
           /\ ups.num * METRICS_WINDOW_COUNT = n * ups.den
           /\ n > 0 => (avg.den > 0 /\ avg.num * n = sum * avg.den)
           /\ n = 0 => avg = F32Zero

\* A tick stored a row with one update of 2 ms in the window.
C5_Witness ==
    /\ TickDone
    /\ inserted.updates_per_second = [num |-> 1, den |-> 60]
    /\ inserted.average_update_time_ms = [num |-> 2, den |-> 1]

\* No call of record_update_metrics in the 60 seconds before now.
C6_Idle == \A n \in 1 .. Len(log) : now - log[n].t >= WindowMicros

(***************************************************************************)
(* C6: idle window.  When no call of record_update_metrics was made in the *)
(* 60 seconds before a tick, the row the tick stores has                   *)
(* updates_per_second = 0 and average_update_time_ms = 0.                  *)
(***************************************************************************)
C6_IdleWindow ==
    (TickDone /\ C6_Idle) =>
        /\ IsZero(inserted.updates_per_second)
        /\ IsZero(inserted.average_update_time_ms)

\* A tick after an idle window met a window that still holds its samples.
C6_Witness ==
    /\ TickDone
    /\ C6_Idle
    /\ \E i \in DOMAIN metrics_window : metrics_window[i].update_count > 0

(***************************************************************************)
(* C7: one period per window.  The samples summed in a window were all     *)
(* recorded in the same second.                                            *)
(***************************************************************************)
C7_OnePeriod ==
    \A n \in held, m \in held :
        CurrentWindow(log[n].t) = CurrentWindow(log[m].t)
            => SecondOf(log[n].t) = SecondOf(log[m].t)

C9_ValidWindows ==
    \A i \in DOMAIN metrics_window :
        /\ metrics_window[i].update_count >= 0
        /\ metrics_window[i].total_update_time_ms >= 0
        /\ \A n \in HeldIn(i) :
               /\ metrics_window[i].start_time <= log[n].t
               /\ log[n].t < metrics_window[i].start_time + WindowMicros

\* A window holds two samples, one of them recorded after its start_time.
C9_Witness ==
    \E i \in DOMAIN metrics_window :
        /\ metrics_window[i].update_count = 2
        /\ \E n \in HeldIn(i) : log[n].t > metrics_window[i].start_time

C12_IdempotentReset ==
    op.name = "init_metrics" =>
        /\ DOMAIN metrics_window = WindowIds
        /\ \A i \in DOMAIN metrics_window :
               /\ metrics_window[i].update_count = 0
               /\ metrics_window[i].total_update_time_ms = 0
        /\ LiveTotals(metrics_window, now) = NoTotals

(***************************************************************************)
(* C13: a call of update_server_metrics that completes writes one row,     *)
(* the one with the timestamp of the call, deletes only rows older than    *)
(* 60 s, and changes nothing else: every window, live or stale, is after   *)
(* the call what it was before it.                                         *)
(***************************************************************************)
C13_TickFrame ==
    [][(C4_TickStep /\ op'.outcome = "ok")
          => /\ metrics_window' = metrics_window
             /\ inserted'.timestamp = now'
             /\ server_metrics' \subseteq server_metrics \cup {inserted'}
             /\ \A m \in (server_metrics \cup {inserted'}) \ server_metrics' :
                    m.timestamp < now' - RETENTION_MICROS]_vars

(***************************************************************************)
(* C14: every stored row has connected_clients >= 0, memory_usage_mb >= 0  *)
(* and cpu_usage_percent >= 0; a count or a reading that comes in below    *)
(* zero is stored as zero.                                                 *)
(***************************************************************************)
C14_NonNegative ==
    \A m \in server_metrics :
        /\ m.connected_clients >= 0
        /\ m.memory_usage_mb.num >= 0
        /\ m.cpu_usage_percent >= 0

(***************************************************************************)
(* C15: no call of update_server_metrics is skipped, whatever the player   *)
(* table and sysinfo have to report.  A call at a timestamp that is not    *)
(* yet the key of a stored row completes, and the row with that timestamp  *)
(* is stored after it.                                                     *)
(***************************************************************************)
C15_NeverSkipped ==
    [][(C4_TickStep /\ ~ \E m \in server_metrics : m.timestamp = now')
          => /\ op'.outcome = "ok"
             /\ \E m \in server_metrics' : m.timestamp = now']_vars

\* A step in which record_update_metrics runs.
C16_RecordCall ==
    /\ op'.name = "record_update_metrics"
    /\ calls' = calls + 1

(***************************************************************************)
(* C16: a call of record_update_metrics that finds no window with the id   *)
(* of its second, as when init_metrics has not run, does nothing: it       *)
(* creates no window, changes no window and no stored row, and does not    *)
(* fail.                                                                   *)
(***************************************************************************)
C16_NoWindowNoOp ==
    [][(C16_RecordCall /\ CurrentWindow(now') \notin DOMAIN metrics_window)
          => /\ op'.outcome = "ok"
             /\ metrics_window' = metrics_window
             /\ server_metrics' = server_metrics]_vars

\* A call has returned without finding its window; there is still none.
C16_Witness ==
    /\ op = [name |-> "record_update_metrics", outcome |-> "ok"]
    /\ Len(log) > 0
    /\ ~ log[Len(log)].found
    /\ log[Len(log)].t = now
    /\ DOMAIN metrics_window = {}

\* record_update_metrics at t would add to the window, not reset it.
C17_Accumulates(window, t) ==
    RecordRow(window, t, 1) =
        [window EXCEPT !.update_count = @ + 1,
                       !.total_update_time_ms = @ + 1]

(***************************************************************************)
(* C17: the test that resets a window in record_update_metrics and the     *)
(* test that includes it in the totals of update_server_metrics are        *)
(* complements.  For every window the table can hold and every timestamp   *)
(* of a next call, the window is included in the totals at that timestamp  *)
(* exactly when a record at that timestamp would add to it.                *)
(***************************************************************************)
C17_Complements ==
    \A i \in DOMAIN metrics_window :
        \A t \in {u \in Times : u >= now} :
            IsLive(t, metrics_window[i].start_time)
                <=> C17_Accumulates(metrics_window[i], t)

\* update_server_metrics ran when a window with samples was exactly 60 s
\* old: left out of the totals, and a record would now reset it.
C17_Witness ==
    /\ TickDone
    /\ \E i \in DOMAIN metrics_window :
           /\ metrics_window[i].update_count > 0
           /\ now - metrics_window[i].start_time = WindowMicros
           /\ ~ IsLive(now, metrics_window[i].start_time)
           /\ ~ C17_Accumulates(metrics_window[i], now)

(***************************************************************************)
(* C18: once update_server_metrics at now has completed, the row with      *)
(* timestamp now is in the table, for every now, those below 60 s          *)
(* included: the cutoff now - 60 s never wraps to a value that makes the   *)
(* clean-up delete the row just written.                                   *)
(***************************************************************************)
C18_SnapshotKept ==
    TickDone => /\ inserted.timestamp = now
                /\ inserted \in server_metrics

(***************************************************************************)
(* C19: a call of record_update_metrics at now changes at most the window  *)
(* whose id is the whole second of now modulo 60.  Every other window and  *)
(* every stored row is what it was, no window is created or deleted (the   *)
(* ids stay 0 .. 59), and the new row of that window is determined by its  *)
(* old row, now and the latency alone.                                     *)
(***************************************************************************)
C19_OneWindow ==
    [][C16_RecordCall =>
          LET idx == (now' \div MICROS_PER_SEC) % METRICS_WINDOW_COUNT
          IN /\ \A i \in DOMAIN metrics_window \ {idx} :
                    metrics_window'[i] = metrics_window[i]
             /\ DOMAIN metrics_window' = DOMAIN metrics_window
             /\ Initialized => DOMAIN metrics_window' = WindowIds
             /\ server_metrics' = server_metrics
             /\ (Initialized /\ op'.outcome = "ok") =>
                    metrics_window'[idx] =
                        RecordRow(metrics_window[idx], now',
                                  log'[Len(log')].v)]_vars

\* Calls have been recorded in two windows, the latest of them just now.
C19_Witness ==
    /\ op = [name |-> "record_update_metrics", outcome |-> "ok"]
    /\ \E i \in DOMAIN metrics_window, j \in DOMAIN metrics_window :
           /\ i # j
           /\ metrics_window[i].update_count > 0
           /\ metrics_window[j].update_count > 0
           /\ CurrentWindow(now) = j

(***************************************************************************)
(* C20: update_server_metrics called before init_metrics, with no window   *)
(* in the table, does not fail.  It stores one row, with                   *)
(* updates_per_second 0 and average_update_time_ms 0, and cleans up as     *)
(* usual: no row older than 60 s is left, and the younger ones are kept.   *)
(***************************************************************************)
C20_TickBeforeInit ==
    [][(/\ C4_TickStep
        /\ ~ Initialized
        /\ ~ \E m \in server_metrics : m.timestamp = now')
          => /\ op'.outcome = "ok"
             /\ inserted'.timestamp = now'
             /\ IsZero(inserted'.updates_per_second)
             /\ IsZero(inserted'.average_update_time_ms)
             /\ inserted' \in server_metrics'
             /\ \A m \in server_metrics' :
                    m.timestamp >= now' - RETENTION_MICROS
             /\ \A m \in server_metrics :
                    m.timestamp >= now' - RETENTION_MICROS
                        => m \in server_metrics']_vars

====
